---- MODULE Spec2Model ----
(***************************************************************************)
(* The Textual front end of aider (src/aider/tui.py) as a state machine:   *)
(* one presentation loop that drains the application's message queue, and  *)
(* background workers started with run_worker that run the blocking calls  *)
(* of the coder in threads and post messages back.                         *)
(*                                                                         *)
(* Library semantics the code relies on, taken as given:                   *)
(*  - post_message appends to one FIFO queue; the loop handles one message *)
(*    at a time;                                                           *)
(*  - a disabled Input emits no Submitted, a disabled or removed Button    *)
(*    emits no Pressed, and a handler runs to its end without interleaving *)
(*    with another handler;                                                *)
(*  - run_worker runs the work off the loop thread; exclusive=True cancels *)
(*    the other workers of the group, which stops a coroutine at its await *)
(*    but never the thread the coroutine is waiting for.                   *)
(* Text the coder prints goes to the process-wide sys.stdout current at    *)
(* the time of the print (the premise of the captures in tui.py).          *)
(* What Textual does with a worker whose function raised is left out;      *)
(* uncaught records that it did.                                           *)
(*                                                                         *)
(* Spec is that front end, FairSpec the same under fair scheduling of the  *)
(* loop and of the turn's thread, SpecToggle the file toggles made one     *)
(* after the other, and SpecSend one call of LLMCommandCoder.send          *)
(* (src/aider/coders/llm_command_coder.py) with the process it starts.     *)
(***************************************************************************)
EXTENDS Integers, Sequences, FiniteSets, TLC

\* Bounds of the model: the workers a session starts from the prompt, the
\* palette and the file tree; the undo workers it starts; the workers live at
\* the same time; the fragments of a stream; the paths of the file tree.
MaxWorkers == 2
MaxUndos == 1
MaxLive == 2
MaxFrags == 2
MaxPaths == 2

\* Bounds of the model of send: the characters of the prompt, the capacity of
\* a pipe, the characters the process writes to its standard output and to
\* its standard error.
MaxPrompt == 2
MaxPipe == 2
MaxOut == 2
MaxErr == 2

Workers == 1..(MaxWorkers + MaxUndos)
Paths == 1..MaxPaths

VARIABLES
    setup,           \* position of run_coder_setup: "running", "ok", "failed"
    coder,           \* self.coder is set
    test_cmd,        \* self.coder.test_cmd: "set", "unset", or "unread" while
                     \* nothing has read the configured value yet
    input_disabled,  \* #prompt_input.disabled
    file_browser,    \* the DirectoryTree is mounted in the sidebar
    queue,           \* messages posted and not yet handled by the loop
    chat_log,        \* texts inserted in #chat_log, in insertion order
    containers,      \* diff containers mounted by on_show_diff, in mount order
    workers,         \* the workers started with run_worker
    next_worker,     \* next free worker id
    sys_stdout,      \* sys.stdout: 0 the original stream, w the capture of worker w
    captured,        \* captured_output of each worker: the writers of its text
    terminal,        \* writers of text that reached the original stream
    last_diff,       \* coder.last_aider_commit_diff: 0 None, t the diff of turn t
    commits,         \* changes applied and not reverted, oldest first
    tracked,         \* coder's in-chat files
    tracked0,        \* history: the in-chat files the session started with
    posted,          \* history: the messages each worker posted, in order
    setup_posted,    \* history: the messages run_coder_setup posted
    reverts,         \* history: cmd_undo invocations per diff container
    uncaught,        \* history: workers whose function ended by raising
    send_frame,      \* LLMCommandCoder.send: its position and its locals
    process,         \* the external process started by send
    pipes,           \* the pipes between send and the process
    send_log         \* history: launches, fragments, error reports, messages

tui == <<setup, coder, test_cmd, input_disabled, file_browser, queue, chat_log,
         containers, workers, next_worker, sys_stdout, captured, terminal,
         last_diff, commits, tracked, tracked0, posted, setup_posted, reverts,
         uncaught>>

llm == <<send_frame, process, pipes, send_log>>

vars == <<tui, llm>>

ui == <<input_disabled, file_browser, chat_log, containers>>
session == <<setup, coder, test_cmd, setup_posted, tracked0>>
stdio == <<sys_stdout, captured, terminal>>
coder_state == <<last_diff, commits, tracked, reverts>>

\* ---------------------------------------------------------------- messages

Msg(type, src, text, idx, body) ==
    [type |-> type, src |-> src, text |-> text, idx |-> idx, body |-> body]

CoderReady == Msg("CoderReady", 0, "", 0, <<>>)
UpdateChatLog(src, text, idx, body) == Msg("UpdateChatLog", src, text, idx, body)
ShowDiff(src, diff) == Msg("ShowDiff", src, "diff", diff, <<>>)
ChatTaskDone(src) == Msg("ChatTaskDone", src, "", 0, <<>>)

post_message(q, msgs) == q \o msgs

\* A worker posts msgs, in order.
Post(w, msgs) ==
    /\ queue' = post_message(queue, msgs)
    /\ posted' = [posted EXCEPT ![w] = @ \o msgs]

\* ---------------------------------------------------------------- workers

NoWorker ==
    [kind |-> "none", pc |-> "done", original_stdout |-> 0, cancelled |-> FALSE,
     arg |-> 0, n |-> 0, raised |-> FALSE, result |-> "none", seen |-> FALSE]

Live(w) == workers[w].kind # "none" /\ workers[w].pc # "done"

\* run_worker(..., exclusive=True) cancels the live workers of the group. Only
\* run_undo has code after its await, so only there is the cancellation kept.
cancel_group(ws) ==
    [w \in Workers |->
        IF ws[w].kind = "undo" /\ ws[w].pc # "done"
        THEN [ws[w] EXCEPT !.cancelled = TRUE] ELSE ws[w]]

Started(kinds) == Cardinality({w \in Workers : workers[w].kind \in kinds})

\* The session stays within the bounds of the model.
WithinBounds(kind) ==
    /\ Cardinality({w \in Workers : Live(w)}) < MaxLive
    /\ IF kind = "undo"
       THEN Started({"undo"}) < MaxUndos
       ELSE Started({"turn", "commit", "test", "lint", "toggle"}) < MaxWorkers

run_worker(kind, arg, exclusive) ==
    /\ WithinBounds(kind)
    /\ workers' = [(IF exclusive THEN cancel_group(workers) ELSE workers)
                     EXCEPT ![next_worker] =
                        [NoWorker EXCEPT !.kind = kind, !.pc = "start", !.arg = arg]]
    /\ next_worker' = next_worker + 1

\* The worker moves to pc; a worker that is done keeps no locals.
Step(w, pc) ==
    IF pc = "done"
    THEN [workers EXCEPT ![w] = [NoWorker EXCEPT !.kind = workers[w].kind,
                                                 !.arg = workers[w].arg,
                                                 !.raised = workers[w].raised,
                                                 !.result = workers[w].result]]
    ELSE [workers EXCEPT ![w].pc = pc]

\* ---------------------------------------------------------------- stdout

\* A print by worker w lands in whatever sys.stdout is at that moment.
stdout_write(w, prints) ==
    /\ captured' = IF prints /\ sys_stdout # 0
                   THEN [captured EXCEPT ![sys_stdout] = Append(@, w)]
                   ELSE captured
    /\ terminal' = IF prints /\ sys_stdout = 0 THEN terminal \cup {w} ELSE terminal
    /\ UNCHANGED sys_stdout

\* original_stdout = sys.stdout; captured_output = io.StringIO();
\* sys.stdout = captured_output
redirect_stdout(w) ==
    /\ workers[w].kind # "none"
    /\ workers[w].pc = "start"
    /\ workers' = [workers EXCEPT
            ![w].original_stdout = sys_stdout,
            ![w].pc = CASE workers[w].kind = "turn" -> "stream"
                        [] workers[w].kind = "toggle" -> "read"
                        [] OTHER -> "call"]
    /\ sys_stdout' = w
    /\ UNCHANGED <<ui, session, coder_state, queue, next_worker, captured,
                   terminal, posted, uncaught>>
    /\ UNCHANGED llm

\* output = captured_output.getvalue(); if output: post UpdateChatLog(output)
output_msgs(w) ==
    IF captured[w] # <<>> THEN <<UpdateChatLog(w, "output", 0, captured[w])>> ELSE <<>>

\* ---------------------------------------------------------------- setup

\* Faulty variant: CoderReady posted after the try/except instead of inside the try.
setup_msgs_ready_after_except(ok) ==
    IF ok THEN <<CoderReady>>
    ELSE <<UpdateChatLog(0, "setup error", 0, <<>>), CoderReady>>

setup_msgs(ok) ==
    IF ok THEN <<CoderReady>> ELSE <<UpdateChatLog(0, "setup error", 0, <<>>)>>

run_coder_setup ==
    /\ setup = "running"
    /\ \E ok \in BOOLEAN :
        /\ setup' = IF ok THEN "ok" ELSE "failed"
        /\ coder' = ok
        /\ queue' = post_message(queue, setup_msgs(ok))
        /\ setup_posted' = setup_posted \o setup_msgs(ok)
    /\ UNCHANGED <<ui, test_cmd, tracked0, workers, next_worker, stdio, coder_state,
                   posted, uncaught>>
    /\ UNCHANGED llm

\* ---------------------------------------------------------------- the loop

on_coder_ready ==
    /\ queue # <<>> /\ Head(queue).type = "CoderReady"
    /\ queue' = Tail(queue)
    /\ input_disabled' = FALSE
    /\ file_browser' = TRUE
    /\ UNCHANGED <<session, chat_log, containers, workers, next_worker, stdio,
                   coder_state, posted, uncaught>>
    /\ UNCHANGED llm

\* Faulty variant: the cursor is not moved to the end of the document before inserting.
chat_log_insert_at_start(log, m) ==
    <<[src |-> m.src, text |-> m.text, idx |-> m.idx]>> \o log

\* chat_log.move_cursor(chat_log.document.end); chat_log.insert(text)
chat_log_insert(log, m) == Append(log, [src |-> m.src, text |-> m.text, idx |-> m.idx])

on_update_chat_log ==
    /\ queue # <<>> /\ Head(queue).type = "UpdateChatLog"
    /\ queue' = Tail(queue)
    /\ chat_log' = chat_log_insert(chat_log, Head(queue))
    /\ UNCHANGED <<session, input_disabled, file_browser, containers, workers,
                   next_worker, stdio, coder_state, posted, uncaught>>
    /\ UNCHANGED llm

on_show_diff ==
    /\ queue # <<>> /\ Head(queue).type = "ShowDiff"
    /\ queue' = Tail(queue)
    /\ containers' = Append(containers,
            [diff |-> Head(queue).idx, src |-> Head(queue).src,
             disabled |-> FALSE, mounted |-> TRUE])
    /\ UNCHANGED <<session, input_disabled, file_browser, chat_log, workers,
                   next_worker, stdio, coder_state, posted, uncaught>>
    /\ UNCHANGED llm

\* Faulty variant: on_chat_task_done leaves the prompt input disabled.
input_left_disabled_after_done == TRUE

\* prompt_input.disabled = False
input_disabled_after_done == FALSE

on_chat_task_done ==
    /\ queue # <<>> /\ Head(queue).type = "ChatTaskDone"
    /\ queue' = Tail(queue)
    /\ input_disabled' = input_disabled_after_done
    /\ UNCHANGED <<session, file_browser, chat_log, containers, workers,
                   next_worker, stdio, coder_state, posted, uncaught>>
    /\ UNCHANGED llm

\* ---------------------------------------------------------------- user input

\* The command palette offers Commit, Test and Lint as soon as app.coder is set.
palette_available == coder

do_commit ==
    /\ palette_available
    /\ run_worker("commit", 0, TRUE)
    /\ UNCHANGED <<ui, session, queue, stdio, coder_state, posted, uncaught>>
    /\ UNCHANGED llm

do_run_test ==
    /\ palette_available
    /\ run_worker("test", 0, TRUE)
    /\ UNCHANGED <<ui, session, queue, stdio, coder_state, posted, uncaught>>
    /\ UNCHANGED llm

do_lint ==
    /\ palette_available
    /\ run_worker("lint", 0, TRUE)
    /\ UNCHANGED <<ui, session, queue, stdio, coder_state, posted, uncaught>>
    /\ UNCHANGED llm

\* event.button.disabled = True
button_disabled_after_press == TRUE

on_button_pressed ==
    \E c \in DOMAIN containers :
        /\ containers[c].mounted /\ ~containers[c].disabled
        /\ containers' = [containers EXCEPT ![c].disabled = button_disabled_after_press]
        /\ run_worker("undo", c, FALSE)
        /\ UNCHANGED <<session, input_disabled, file_browser, chat_log, queue,
                       stdio, coder_state, posted, uncaught>>
        /\ UNCHANGED llm

on_directory_tree_file_selected ==
    \E p \in Paths :
        /\ file_browser
        /\ run_worker("toggle", p, FALSE)
        /\ UNCHANGED <<ui, session, queue, stdio, coder_state, posted, uncaught>>
        /\ UNCHANGED llm

\* Faulty variant: on_input_submitted leaves the prompt input enabled.
input_left_enabled_after_submit == FALSE

\* prompt_input.disabled = True
input_disabled_after_submit == TRUE

\* The prompts the user submits: the empty one and a non-empty one.
Prompts == {"", "p"}

\* Faulty variant: the empty prompt is not filtered out.
not_prompt_never(prompt) == FALSE

\* if not prompt: return
not_prompt(prompt) == prompt = ""

\* chat_log.insert(f"> {prompt}\n\n"), as the echo of the turn about to start
echo(prompt) == [src |-> next_worker, text |-> "> " \o prompt, idx |-> 0]

input_submitted(prompt) ==
    /\ ~input_disabled
    /\ IF not_prompt(prompt)
       THEN UNCHANGED tui
       ELSE /\ input_disabled' = input_disabled_after_submit
            /\ chat_log' = Append(chat_log, echo(prompt))
            /\ run_worker("turn", 0, FALSE)
            /\ UNCHANGED <<session, file_browser, containers, queue, stdio,
                           coder_state, posted, uncaught>>
    /\ UNCHANGED llm

on_input_submitted == \E prompt \in Prompts : input_submitted(prompt)

\* ---------------------------------------------------------------- commit, test, lint

\* A call into the coder's commands: it may print and it may raise.
command_call(w) ==
    \E raises \in BOOLEAN, prints \in BOOLEAN :
        /\ workers' = [workers EXCEPT ![w].pc = "finally", ![w].raised = raises]
        /\ stdout_write(w, prints)

blocking_commit(w) ==
    /\ workers[w].kind = "commit" /\ workers[w].pc = "call"
    /\ command_call(w)
    /\ UNCHANGED <<ui, session, coder_state, queue, next_worker, posted, uncaught>>
    /\ UNCHANGED llm

blocking_lint(w) ==
    /\ workers[w].kind = "lint" /\ workers[w].pc = "call"
    /\ command_call(w)
    /\ UNCHANGED <<ui, session, coder_state, queue, next_worker, posted, uncaught>>
    /\ UNCHANGED llm

\* The test command is configuration: its value is fixed for the session and
\* is drawn when it is first read.
blocking_run_test(w) ==
    /\ workers[w].kind = "test" /\ workers[w].pc = "call"
    /\ \E tc \in {"set", "unset"} :
        /\ test_cmd \in {"unread", tc}
        /\ test_cmd' = tc
        /\ IF tc = "set"
           THEN /\ command_call(w)
                /\ UNCHANGED <<queue, posted>>
           ELSE /\ Post(w, <<UpdateChatLog(w, "No test command configured.", 0, <<>>)>>)
                /\ workers' = Step(w, "finally")
                /\ UNCHANGED stdio
    /\ UNCHANGED <<ui, setup, coder, setup_posted, tracked0, coder_state, next_worker,
                   uncaught>>
    /\ UNCHANGED llm

\* Faulty variant: the command also signals ChatTaskDone when it ends.
command_finally_msgs_with_done(w) == output_msgs(w) \o <<ChatTaskDone(w)>>

\* What the finally clause of a command, a toggle or an undo posts.
command_finally_msgs(w) == output_msgs(w)

\* finally: sys.stdout = original_stdout; post the captured output if any.
\* There is no except clause: what the call raised leaves the function.
blocking_finally(w) ==
    /\ workers[w].kind \in {"commit", "test", "lint", "toggle", "undo"}
    /\ workers[w].pc = "finally"
    /\ sys_stdout' = workers[w].original_stdout
    /\ Post(w, command_finally_msgs(w))
    /\ uncaught' = IF workers[w].raised THEN uncaught \cup {w} ELSE uncaught
    /\ workers' = Step(w, IF workers[w].kind = "undo" /\ ~workers[w].raised
                          THEN "await" ELSE "done")
    /\ UNCHANGED <<ui, session, coder_state, next_worker, captured, terminal>>
    /\ UNCHANGED llm

\* ---------------------------------------------------------------- undo

\* coder.cmd_undo: reverts the most recent change, if there is one.
cmd_undo(raises) ==
    IF ~raises /\ commits # <<>> THEN SubSeq(commits, 1, Len(commits) - 1) ELSE commits

undo_wrapper(w) ==
    /\ workers[w].kind = "undo" /\ workers[w].pc = "call"
    /\ \E raises \in BOOLEAN, prints \in BOOLEAN :
        /\ workers' = [workers EXCEPT ![w].pc = "finally", ![w].raised = raises]
        /\ stdout_write(w, prints)
        /\ commits' = cmd_undo(raises)
    /\ reverts' = [reverts EXCEPT ![workers[w].arg] = @ + 1]
    /\ UNCHANGED <<ui, session, last_diff, tracked, queue, next_worker, posted, uncaught>>
    /\ UNCHANGED llm

\* After await asyncio.to_thread(undo_wrapper): a cancelled worker never resumes.
run_undo(w) ==
    /\ workers[w].kind = "undo" /\ workers[w].pc = "await"
    /\ workers' = Step(w, "done")
    /\ IF workers[w].cancelled
       THEN UNCHANGED <<queue, posted, containers>>
       ELSE /\ Post(w, <<UpdateChatLog(w, "Undo complete.", 0, <<>>)>>)
            /\ containers' = [containers EXCEPT ![workers[w].arg].mounted = FALSE]
    /\ UNCHANGED <<session, input_disabled, file_browser, chat_log, next_worker,
                   stdio, coder_state, uncaught>>
    /\ UNCHANGED llm

\* ---------------------------------------------------------------- file toggle

\* Faulty variant: the selected file is added whether or not it is in the chat.
add_rel_fname_always(files, rel_path, in_chat) == files \cup {rel_path}

\* if rel_path in in_chat_files: drop_rel_fname(rel_path) else: add_rel_fname(rel_path)
drop_or_add_rel_fname(files, rel_path, in_chat) ==
    IF in_chat THEN files \ {rel_path} ELSE files \cup {rel_path}

\* in_chat_files = self.coder.get_inchat_relative_files()
toggle_read(w) ==
    /\ workers[w].kind = "toggle" /\ workers[w].pc = "read"
    /\ workers' = [workers EXCEPT ![w].pc = "write",
                                  ![w].seen = (workers[w].arg \in tracked)]
    /\ UNCHANGED <<ui, session, stdio, coder_state, queue, next_worker, posted, uncaught>>
    /\ UNCHANGED llm

toggle_write(w) ==
    /\ workers[w].kind = "toggle" /\ workers[w].pc = "write"
    /\ tracked' = drop_or_add_rel_fname(tracked, workers[w].arg, workers[w].seen)
    /\ \E prints \in BOOLEAN : stdout_write(w, prints)
    /\ workers' = Step(w, "finally")
    /\ UNCHANGED <<ui, session, last_diff, commits, reverts, queue, next_worker,
                   posted, uncaught>>
    /\ UNCHANGED llm

\* ---------------------------------------------------------------- the turn

\* for chunk in self.coder.run_stream(prompt): post UpdateChatLog(chunk)
run_stream_chunk(w) ==
    /\ workers[w].kind = "turn" /\ workers[w].pc = "stream"
    /\ workers[w].n < MaxFrags
    /\ Post(w, <<UpdateChatLog(w, "frag", workers[w].n + 1, <<>>)>>)
    /\ workers' = [workers EXCEPT ![w].n = @ + 1]
    /\ UNCHANGED <<ui, session, stdio, coder_state, next_worker, uncaught>>
    /\ UNCHANGED llm

StreamResults == {"ok", "change", "nonzero", "raise"}

\* send: process.wait(); if process.returncode != 0: io.tool_error(...)
tool_error_printed(res) == res = "nonzero"

\* The turn's result overwrites the coder's last diff.
recordTurnResult(w, res) ==
    CASE res = "change" -> w
      [] res = "raise" -> last_diff
      [] OTHER -> 0

\* The stream ends: normally with or without a file change, with the external
\* process exiting non-zero (send reports it with io.tool_error and returns),
\* or by raising.
run_stream_end(w) ==
    /\ workers[w].kind = "turn" /\ workers[w].pc = "stream"
    /\ \E res \in StreamResults :
        /\ workers' = [workers EXCEPT
                ![w].pc = IF res = "raise" THEN "finally" ELSE "post",
                ![w].raised = (res = "raise"),
                ![w].result = res]
        /\ stdout_write(w, tool_error_printed(res))
        /\ last_diff' = recordTurnResult(w, res)
        /\ commits' = IF res = "change" THEN Append(commits, w) ELSE commits
    /\ UNCHANGED <<ui, session, tracked, reverts, queue, next_worker, posted, uncaught>>
    /\ UNCHANGED llm

\* Faulty variant: ShowDiff is posted without testing last_diff.
show_diff_msgs_unconditional(w, diff) == <<ShowDiff(w, diff)>>

\* if last_diff: post ShowDiff(last_diff, last_message)
show_diff_msgs(w, diff) == IF diff # 0 THEN <<ShowDiff(w, diff)>> ELSE <<>>

blocking_chat_runner_post(w) ==
    /\ workers[w].kind = "turn" /\ workers[w].pc = "post"
    /\ Post(w, output_msgs(w) \o show_diff_msgs(w, last_diff))
    /\ workers' = Step(w, "finally")
    /\ UNCHANGED <<ui, session, stdio, coder_state, next_worker, uncaught>>
    /\ UNCHANGED llm

\* Faulty variant: ChatTaskDone posted after the try block instead of in its finally.
chat_done_msgs_outside_finally(w, raised) ==
    IF raised THEN <<>> ELSE <<ChatTaskDone(w)>>

\* finally: post ChatTaskDone
chat_finally_msgs(w, raised) == <<ChatTaskDone(w)>>

blocking_chat_runner_finally(w) ==
    /\ workers[w].kind = "turn" /\ workers[w].pc = "finally"
    /\ sys_stdout' = workers[w].original_stdout
    /\ Post(w, chat_finally_msgs(w, workers[w].raised))
    /\ uncaught' = IF workers[w].raised THEN uncaught \cup {w} ELSE uncaught
    /\ workers' = Step(w, "done")
    /\ UNCHANGED <<ui, session, coder_state, next_worker, captured, terminal>>
    /\ UNCHANGED llm

\* ---------------------------------------------------------------- send

(***************************************************************************)
(* LLMCommandCoder.send (src/aider/coders/llm_command_coder.py) and the    *)
(* external process it starts, one character at a time. A pipe holds at    *)
(* most its capacity; a write to a full pipe and a read of an empty pipe   *)
(* whose other end is open block; a write to a pipe whose reader is gone   *)
(* raises BrokenPipeError; a read of an empty pipe whose writer is gone    *)
(* returns end-of-file. The process is any program: after each operation   *)
(* it chooses the next one, and once chosen it stays with it until the     *)
(* operation can be done. Its standard output is read in text mode        *)
(* (text=True): carriage return and line feed are the characters "CR" and  *)
(* "LF", and the reader translates newlines as Python's universal newlines *)
(* mode does. The consumer of the generator is the loop of                 *)
(* _blocking_chat_runner.                                                  *)
(***************************************************************************)

\* The characters the process writes to its standard output.
Chars == {"a", "CR", "LF"}

NoSend ==
    [pc |-> "idle", functions |-> FALSE, prompt |-> 0, written |-> 0,
     partial_response_content |-> <<>>, chunk |-> "", pendingcr |-> FALSE,
     decoded_chars |-> <<>>]

NoProcess == [state |-> "none", op |-> "none", out |-> 0, err |-> 0, returncode |-> 0]

NoPipes ==
    [capacity |-> 1, stdin |-> 0, stdin_closed |-> FALSE, stdout |-> <<>>, stderr |-> 0]

NoLog ==
    [launches |-> 0, output |-> <<>>, yielded |-> <<>>, tool_errors |-> <<>>,
     posted |-> <<>>]

\* ---------------------------------------------------------------- specification


TuiInit ==
    /\ setup = "running"
    /\ coder = FALSE
    /\ test_cmd = "unread"
    /\ input_disabled = TRUE
    /\ file_browser = FALSE
    /\ queue = <<>>
    /\ chat_log = <<>>
    /\ containers = <<>>
    /\ workers = [w \in Workers |-> NoWorker]
    /\ next_worker = 1
    /\ sys_stdout = 0
    /\ captured = [w \in Workers |-> <<>>]
    /\ terminal = {}
    /\ last_diff = 0
    /\ commits = <<>>
    /\ tracked = {}
    /\ tracked0 = {}
    /\ posted = [w \in Workers |-> <<>>]
    /\ setup_posted = <<>>
    /\ reverts = [w \in Workers |-> 0]
    /\ uncaught = {}

Init ==
    /\ TuiInit
    /\ send_frame = NoSend
    /\ process = NoProcess
    /\ pipes = NoPipes
    /\ send_log = NoLog

Next ==
    \/ run_coder_setup
    \/ on_coder_ready
    \/ on_update_chat_log
    \/ on_show_diff
    \/ on_chat_task_done
    \/ do_commit
    \/ do_run_test
    \/ do_lint
    \/ on_button_pressed
    \/ on_directory_tree_file_selected
    \/ on_input_submitted
    \/ \E w \in Workers :
        \/ redirect_stdout(w)
        \/ blocking_commit(w)
        \/ blocking_lint(w)
        \/ blocking_run_test(w)
        \/ blocking_finally(w)
        \/ undo_wrapper(w)
        \/ run_undo(w)
        \/ toggle_read(w)
        \/ toggle_write(w)
        \/ run_stream_chunk(w)
        \/ run_stream_end(w)
        \/ blocking_chat_runner_post(w)
        \/ blocking_chat_runner_finally(w)

Spec == Init /\ [][Next]_vars

\* The loop takes the next message of the queue.
Loop == on_coder_ready \/ on_update_chat_log \/ on_show_diff \/ on_chat_task_done

\* The thread of a turn takes its next step; the stream it consumes ends or
\* raises after at most MaxFrags fragments.
ChatThread ==
    \E w \in Workers :
        \/ workers[w].kind = "turn" /\ redirect_stdout(w)
        \/ run_stream_chunk(w)
        \/ run_stream_end(w)
        \/ blocking_chat_runner_post(w)
        \/ blocking_chat_runner_finally(w)

\* The session when the loop keeps draining its queue and the thread of a
\* turn keeps running.
FairSpec == Spec /\ WF_vars(Loop) /\ WF_vars(ChatThread)

\* File toggles made one after the other, in a session whose setup has
\* succeeded and that started with any set of in-chat files.
InitToggle ==
    /\ setup = "ok"
    /\ coder = TRUE
    /\ test_cmd = "unread"
    /\ input_disabled = FALSE
    /\ file_browser = TRUE
    /\ queue = <<>>
    /\ chat_log = <<>>
    /\ containers = <<>>
    /\ workers = [w \in Workers |-> NoWorker]
    /\ next_worker = 1
    /\ sys_stdout = 0
    /\ captured = [w \in Workers |-> <<>>]
    /\ terminal = {}
    /\ last_diff = 0
    /\ commits = <<>>
    /\ tracked \in SUBSET Paths
    /\ tracked0 = tracked
    /\ posted = [w \in Workers |-> <<>>]
    /\ setup_posted = <<CoderReady>>
    /\ reverts = [w \in Workers |-> 0]
    /\ uncaught = {}
    /\ send_frame = NoSend
    /\ process = NoProcess
    /\ pipes = NoPipes
    /\ send_log = NoLog

NextToggle ==
    \/ (\A w \in Workers : ~Live(w)) /\ on_directory_tree_file_selected
    \/ on_update_chat_log
    \/ \E w \in Workers :
        \/ redirect_stdout(w)
        \/ toggle_read(w)
        \/ toggle_write(w)
        \/ blocking_finally(w)

SpecToggle == InitToggle /\ [][NextToggle]_vars

\* ---------------------------------------------------------------- send, its steps

tool_error(text) == [send_log EXCEPT !.tool_errors = Append(@, text)]

\* Faulty variant: after an exception send starts over.
except_retry == "start"

\* except FileNotFoundError / except Exception: the error is reported and the
\* generator returns.
except_return == "returned"

\* if functions: self.io.tool_error(...); return
send_functions ==
    /\ send_frame.pc = "start"
    /\ send_frame.functions
    /\ send_frame' = [send_frame EXCEPT !.pc = "returned"]
    /\ send_log' = tool_error("functions")
    /\ UNCHANGED <<tui, process, pipes>>

\* self.partial_response_content = ""; process = subprocess.Popen(...), which
\* starts the process or raises.
Popen ==
    /\ send_frame.pc = "start"
    /\ ~send_frame.functions
    /\ \E outcome \in {"started", "FileNotFoundError", "Exception"} :
        IF outcome = "started"
        THEN /\ send_frame' = [send_frame EXCEPT !.pc = "write",
                                                 !.partial_response_content = <<>>]
             /\ process' = [NoProcess EXCEPT !.state = "running", !.op = "free"]
             /\ send_log' = [send_log EXCEPT !.launches = @ + 1]
        ELSE /\ send_frame' = [send_frame EXCEPT !.pc = except_return,
                                                 !.partial_response_content = <<>>]
             /\ send_log' = tool_error(outcome)
             /\ UNCHANGED process
    /\ UNCHANGED <<tui, pipes>>

\* if prompt: process.stdin.write(prompt), a character at a time; the write
\* blocks while the pipe is full and raises when the process is gone.
stdin_write ==
    /\ send_frame.pc = "write"
    /\ send_frame.written < send_frame.prompt
    /\ IF process.state # "running"
       THEN /\ send_frame' = [send_frame EXCEPT !.pc = except_return]
            /\ send_log' = tool_error("Exception")
            /\ UNCHANGED pipes
       ELSE /\ pipes.stdin < pipes.capacity
            /\ pipes' = [pipes EXCEPT !.stdin = @ + 1]
            /\ send_frame' = [send_frame EXCEPT !.written = @ + 1]
            /\ UNCHANGED send_log
    /\ UNCHANGED <<tui, process>>

\* process.stdin.close()
stdin_close ==
    /\ send_frame.pc = "write"
    /\ send_frame.written = send_frame.prompt
    /\ pipes' = [pipes EXCEPT !.stdin_closed = TRUE]
    /\ send_frame' = [send_frame EXCEPT !.pc = "read"]
    /\ UNCHANGED <<tui, process, send_log>>

\* The newline decoder of the text-mode reader (text=True), fed one
\* character: a carriage return is held back until the next character shows
\* whether a line feed follows; "\r\n" and "\r" come out as "\n".
decode(pendingcr, raw) ==
    CASE raw = "CR" -> [output |-> IF pendingcr THEN <<"LF">> ELSE <<>>,
                        pendingcr |-> TRUE]
      [] raw = "LF" -> [output |-> <<"LF">>, pendingcr |-> FALSE]
      [] OTHER -> [output |-> IF pendingcr THEN <<"LF", raw>> ELSE <<raw>>,
                   pendingcr |-> FALSE]

\* Faulty variant: the chunk replaces the partial response.
partial_response_overwritten(content, chunk) == <<chunk>>

\* self.partial_response_content += chunk
partial_response_add(content, chunk) == Append(content, chunk)

\* read(1) returns the character chunk, the rest stays decoded in the reader.
return_chunk(output, pendingcr) ==
    [send_frame EXCEPT
        !.pc = "yield",
        !.chunk = Head(output),
        !.decoded_chars = Tail(output),
        !.pendingcr = pendingcr,
        !.partial_response_content = partial_response_add(@, Head(output))]

\* completion.read(1): the next character, end-of-file ("" ends the iter), or
\* an exception when the character cannot be decoded.
stdout_read ==
    /\ send_frame.pc = "read"
    /\ IF send_frame.decoded_chars # <<>>
       THEN /\ send_frame' = return_chunk(send_frame.decoded_chars, send_frame.pendingcr)
            /\ UNCHANGED <<pipes, send_log>>
       ELSE IF pipes.stdout # <<>>
       THEN \E decoded \in BOOLEAN :
            IF decoded
            THEN LET d == decode(send_frame.pendingcr, Head(pipes.stdout)) IN
                 /\ send_frame' = IF d.output # <<>>
                                  THEN return_chunk(d.output, d.pendingcr)
                                  ELSE [send_frame EXCEPT !.pendingcr = d.pendingcr]
                 /\ pipes' = [pipes EXCEPT !.stdout = Tail(@)]
                 /\ UNCHANGED send_log
            ELSE /\ send_frame' = [send_frame EXCEPT !.pc = except_return]
                 /\ send_log' = tool_error("Exception")
                 /\ UNCHANGED pipes
       ELSE /\ process.state # "running"
            /\ send_frame' = IF send_frame.pendingcr
                             THEN return_chunk(<<"LF">>, FALSE)
                             ELSE [send_frame EXCEPT !.pc = "wait"]
            /\ UNCHANGED <<pipes, send_log>>
    /\ UNCHANGED <<tui, process>>

\* yield chunk, taken by: for chunk in self.coder.run_stream(prompt):
\* self.post_message(self.UpdateChatLog(chunk))
yield_chunk ==
    /\ send_frame.pc = "yield"
    /\ send_frame' = [send_frame EXCEPT !.pc = "read"]
    /\ send_log' = [send_log EXCEPT
            !.yielded = Append(@, send_frame.chunk),
            !.posted = Append(@, UpdateChatLog(0, "frag", send_frame.chunk, <<>>))]
    /\ UNCHANGED <<tui, process, pipes>>

\* What send reports after the wait.
exit_errors(returncode, stderr_output) ==
    IF returncode = 0 THEN <<>>
    ELSE IF stderr_output # 0 THEN <<"exit code", "stderr">> ELSE <<"exit code">>

\* process.wait(); if process.returncode != 0: stderr_output =
\* process.stderr.read(); tool_error(...); if stderr_output: tool_error(...)
process_wait ==
    /\ send_frame.pc = "wait"
    /\ process.state = "exited"
    /\ process' = [process EXCEPT !.state = "waited"]
    /\ pipes' = [pipes EXCEPT !.stderr = IF process.returncode # 0 THEN 0 ELSE @]
    /\ send_log' = [send_log EXCEPT
            !.tool_errors = @ \o exit_errors(process.returncode, pipes.stderr)]
    /\ send_frame' = [send_frame EXCEPT !.pc = "returned"]
    /\ UNCHANGED tui

\* The generator has returned; _blocking_chat_runner reaches its finally:
\* self.post_message(self.ChatTaskDone())
chat_runner_finally ==
    /\ send_frame.pc = "returned"
    /\ send_frame' = [send_frame EXCEPT !.pc = "done"]
    /\ send_log' = [send_log EXCEPT !.posted = Append(@, ChatTaskDone(0))]
    /\ UNCHANGED <<tui, process, pipes>>

\* The process chooses its next operation: read a character of its input,
\* write one to its standard output or to its standard error, or exit.
process_choose ==
    /\ process.state = "running" /\ process.op = "free"
    /\ \E op \in {"read", "stdout", "stderr"} :
        /\ op = "stdout" => process.out < MaxOut
        /\ op = "stderr" => process.err < MaxErr
        /\ process' = [process EXCEPT !.op = op]
    /\ UNCHANGED <<tui, send_frame, pipes, send_log>>

process_read ==
    /\ process.state = "running" /\ process.op = "read"
    /\ pipes.stdin > 0 \/ pipes.stdin_closed
    /\ pipes' = [pipes EXCEPT !.stdin = IF @ > 0 THEN @ - 1 ELSE @]
    /\ process' = [process EXCEPT !.op = "free"]
    /\ UNCHANGED <<tui, send_frame, send_log>>

process_write_stdout ==
    /\ process.state = "running" /\ process.op = "stdout"
    /\ Len(pipes.stdout) < pipes.capacity
    /\ \E c \in Chars :
        /\ pipes' = [pipes EXCEPT !.stdout = Append(@, c)]
        /\ send_log' = [send_log EXCEPT !.output = Append(@, c)]
    /\ process' = [process EXCEPT !.op = "free", !.out = @ + 1]
    /\ UNCHANGED <<tui, send_frame>>

process_write_stderr ==
    /\ process.state = "running" /\ process.op = "stderr"
    /\ pipes.stderr < pipes.capacity
    /\ pipes' = [pipes EXCEPT !.stderr = @ + 1]
    /\ process' = [process EXCEPT !.op = "free", !.err = @ + 1]
    /\ UNCHANGED <<tui, send_frame, send_log>>

process_exit ==
    /\ process.state = "running" /\ process.op = "free"
    /\ \E returncode \in {0, 1} :
        process' = [process EXCEPT !.state = "exited", !.op = "none",
                                   !.returncode = returncode]
    /\ UNCHANGED <<tui, send_frame, pipes, send_log>>

\* One call of send, for any prompt, with or without functions, and any
\* capacity of the pipes.
InitSend ==
    /\ TuiInit
    /\ \E functions \in BOOLEAN, prompt \in 0..MaxPrompt :
        send_frame = [NoSend EXCEPT !.pc = "start", !.functions = functions,
                                    !.prompt = prompt]
    /\ process = NoProcess
    /\ \E capacity \in 1..MaxPipe : pipes = [NoPipes EXCEPT !.capacity = capacity]
    /\ send_log = NoLog

NextSend ==
    \/ send_functions
    \/ Popen
    \/ stdin_write
    \/ stdin_close
    \/ stdout_read
    \/ yield_chunk
    \/ process_wait
    \/ chat_runner_finally
    \/ process_choose
    \/ process_read
    \/ process_write_stdout
    \/ process_write_stderr
    \/ process_exit

SpecSend == InitSend /\ [][NextSend]_vars

\* ---------------------------------------------------------------- properties

Turns == {w \in Workers : workers[w].kind = "turn"}
Commands == {w \in Workers : workers[w].kind \in {"commit", "test", "lint"}}
Undos == {w \in Workers : workers[w].kind = "undo"}
Done(w) == workers[w].kind # "none" /\ workers[w].pc = "done"
Running(w) == workers[w].kind # "none" /\ workers[w].pc \notin {"start", "done"}

OfType(seq, type) ==
    LET Test(m) == m.type = type IN SelectSeq(seq, Test)

FragsOf(seq, w) ==
    LET Test(e) == e.src = w /\ e.text = "frag" IN SelectSeq(seq, Test)

Idx(seq) == [i \in 1..Len(seq) |-> seq[i].idx]
UpTo(k) == [i \in 1..k |-> i]

\* The messages of worker w whose text holds what worker t printed.
Carrying(w, t) ==
    LET Test(m) == m.type = "UpdateChatLog" /\ \E i \in DOMAIN m.body : m.body[i] = t
    IN SelectSeq(posted[w], Test)

\* C1 (as claimed): the fragments of a turn are inserted in the chat log in
\* order and contiguously: nothing else is inserted between two fragments of
\* the same turn.
C1_FragmentsContiguous ==
    \A i, j \in DOMAIN chat_log :
        (/\ i < j
         /\ chat_log[i].text = "frag" /\ chat_log[j].text = "frag"
         /\ chat_log[i].src = chat_log[j].src)
        => /\ chat_log[i].idx < chat_log[j].idx
           /\ \A k \in i..j : /\ chat_log[k].src = chat_log[i].src
                              /\ chat_log[k].text = "frag"

\* C1 (amended): the fragments a turn has posted are f1..fn, and the chat log
\* followed by the queue holds exactly f1..fn of that turn, in that order: no
\* fragment is lost, duplicated or reordered, whatever else is inserted.
C1_FragmentsInOrder ==
    \A w \in Turns :
        LET sent == Idx(FragsOf(posted[w], w))
        IN /\ sent = UpTo(Len(sent))
           /\ Idx(FragsOf(chat_log, w)) \o Idx(FragsOf(queue, w)) = sent

\* C1 witness: two fragments of one turn are in the chat log, in order, with
\* the output of a file toggle inserted between them.
C1_Witness ==
    \E i, j, k \in DOMAIN chat_log :
        /\ i < k /\ k < j
        /\ chat_log[i].text = "frag" /\ chat_log[j].text = "frag"
        /\ chat_log[i].src = chat_log[j].src
        /\ chat_log[i].idx = 1 /\ chat_log[j].idx = 2
        /\ chat_log[k].src \in Workers
        /\ workers[chat_log[k].src].kind = "toggle"

\* C2: a turn that has ended has posted exactly one ChatTaskDone and it is the
\* last message it posted; a turn that has not ended has posted none.
C2_OneTaskDoneLast ==
    \A w \in Turns :
        IF Done(w)
        THEN /\ Len(OfType(posted[w], "ChatTaskDone")) = 1
             /\ posted[w][Len(posted[w])].type = "ChatTaskDone"
        ELSE OfType(posted[w], "ChatTaskDone") = <<>>

\* C2 witness: a turn whose stream raised after a fragment has ended, and one
\* whose stream ended with a diff has ended.
C2_Witness ==
    /\ \E w \in Turns :
        /\ Done(w) /\ workers[w].raised
        /\ FragsOf(posted[w], w) # <<>>
    /\ \E w \in Turns :
        /\ Done(w) /\ OfType(posted[w], "ShowDiff") # <<>>

ExclusiveKinds == {"turn", "commit", "test", "lint"}

\* C3: at most one exclusive operation (turn, commit, test, lint) is running.
C3_OneExclusiveRunning ==
    Cardinality({w \in Workers : Running(w) /\ workers[w].kind \in ExclusiveKinds}) <= 1

\* C4: at most one turn is live, and from the submission of a prompt until the
\* loop has handled the turn's ChatTaskDone the prompt input is disabled.
C4_OneTurn ==
    /\ Cardinality({w \in Turns : Live(w)}) <= 1
    /\ \A w \in Turns :
        (Live(w) \/ \E i \in DOMAIN queue : queue[i] = ChatTaskDone(w))
        => input_disabled

\* C4 witness: a second turn is running, with the input disabled, after a
\* first turn has ended and its ChatTaskDone was handled.
C4_Witness ==
    \E w1, w2 \in Turns :
        /\ Done(w1) /\ Running(w2) /\ input_disabled
        /\ queue = <<>>

\* C5: a turn whose external process exited non-zero posts exactly one message
\* carrying the reported error text, then exactly one ChatTaskDone, and no
\* ShowDiff.
C5_NonZeroExitReported ==
    \A w \in Turns :
        (Done(w) /\ workers[w].result = "nonzero")
        => /\ Len(Carrying(w, w)) = 1
           /\ Len(OfType(posted[w], "ChatTaskDone")) = 1
           /\ OfType(posted[w], "ShowDiff") = <<>>

C7_EveryExclusivePostsTaskDone ==
    \A w \in Workers :
        (Done(w) /\ workers[w].kind \in ExclusiveKinds)
        => Len(OfType(posted[w], "ChatTaskDone")) = 1

\* C7 (amended): a turn that has ended has posted exactly one ChatTaskDone,
\* whether it succeeded or failed; a commit, test or lint posts none.
C7_TaskDoneFromTurnsOnly ==
    \A w \in Workers :
        /\ (Done(w) /\ workers[w].kind = "turn")
            => Len(OfType(posted[w], "ChatTaskDone")) = 1
        /\ w \in Commands => OfType(posted[w], "ChatTaskDone") = <<>>

\* C7 witness: a command that raised and a turn have both ended.
C7_Witness ==
    /\ \E w \in Commands : Done(w) /\ workers[w].raised
    /\ \E w \in Turns : Done(w)

\* C8: the input is enabled only after a CoderReady was handled; CoderReady is
\* posted at most once and only by a setup that succeeded; a setup that
\* failed posted exactly one message, with the error, the input stays
\* disabled and no worker is ever started.
C8_ReadyOnlyOnSuccess ==
    /\ ~input_disabled => (file_browser /\ setup = "ok")
    /\ \A w \in Workers : OfType(posted[w], "CoderReady") = <<>>
    /\ Len(OfType(setup_posted, "CoderReady")) = (IF setup = "ok" THEN 1 ELSE 0)
    /\ setup = "running" => setup_posted = <<>>
    /\ setup = "failed" =>
        /\ setup_posted = <<UpdateChatLog(0, "setup error", 0, <<>>)>>
        /\ input_disabled
        /\ next_worker = 1

\* C8 witness: setup failed and the loop has shown its error.
C8_Witness ==
    /\ setup = "failed"
    /\ queue = <<>>
    /\ Len(chat_log) = 1 /\ chat_log[1].text = "setup error"

\* C9: a commit, test, lint or undo whose call raised is caught in its
\* background context and surfaced as exactly one UpdateChatLog.
C9_FailureCaughtAndSurfaced ==
    \A w \in Commands \cup Undos :
        (Done(w) /\ workers[w].raised)
        => /\ w \notin uncaught
           /\ Len(OfType(posted[w], "UpdateChatLog")) = 1

\* C10: the undo of a shown diff invokes the revert at most once, and once its
\* undo worker has ended the diff's container is removed.
C10_UndoOnceAndRemoved ==
    \A c \in DOMAIN containers :
        /\ reverts[c] <= 1
        /\ \A w \in Undos :
            (Done(w) /\ workers[w].arg = c) => ~containers[c].mounted

\* C11: a revert never runs at the same time as a turn: while a turn is
\* running the Undo button of every shown diff is unavailable, and while a
\* revert is in progress the prompt input is disabled, so no turn can start.
C11_RevertNeverWithTurn ==
    /\ (\E t \in Turns : Live(t)) =>
            \A c \in DOMAIN containers :
                containers[c].mounted => containers[c].disabled
    /\ (\E u \in Undos : Live(u)) => input_disabled
    /\ ~\E t \in Turns, u \in Undos : Running(t) /\ Running(u)

Toggles == {w \in Workers : workers[w].kind = "toggle"}
Odd(n) == n % 2 = 1

\* C12: a file toggle adds the path when it is not in the chat and removes it
\* when it is; toggles made one after the other leave a path in the chat
\* exactly when it started in the chat and was toggled an even number of
\* times, or started out of it and was toggled an odd number of times: two
\* toggles of the same path restore its membership, and a path that was not
\* toggled keeps its membership.
C12_ToggleTwiceRestores ==
    (\A w \in Workers : ~Live(w)) =>
        \A p \in Paths :
            (p \in tracked) <=>
                ((p \in tracked0) # Odd(Cardinality({w \in Toggles : workers[w].arg = p})))

\* C12 witness: a path that started in the chat was toggled twice and is in
\* the chat again, next to a path that was never toggled.
C12_Witness ==
    /\ \A w \in Workers : ~Live(w)
    /\ \E p \in tracked0 : Cardinality({w \in Toggles : workers[w].arg = p}) = 2
    /\ tracked = tracked0

EchoesOf(w) ==
    {i \in DOMAIN chat_log : chat_log[i] = [echo("p") EXCEPT !.src = w]}

\* C13: submitting the empty prompt changes nothing: not the input's enabled
\* state, the chat log, the queue or the workers, and it starts no turn, so the
\* chat log never holds the echo of an empty prompt. A non-empty prompt
\* disables the input and appends its echo to the chat log before the first
\* fragment of its turn is appended: every turn has exactly one echo, which
\* comes before each of its fragments, and the input stays disabled while
\* the turn is live.
C13_EmptyNoOpEchoFirst ==
    /\ [](/\ \A i \in DOMAIN chat_log : chat_log[i].text # "> "
          /\ \A w \in Turns :
                /\ Cardinality(EchoesOf(w)) = 1
                /\ \A i \in DOMAIN chat_log :
                        (chat_log[i].src = w /\ chat_log[i].text = "frag")
                        => \E j \in EchoesOf(w) : j < i
                /\ Live(w) => input_disabled)
    /\ [][input_submitted("") =>
            UNCHANGED <<input_disabled, chat_log, queue, workers, next_worker>>]_vars

\* C13 witness: the fragments of a turn are in the chat log after its echo,
\* and the input is still disabled.
C13_Witness ==
    /\ input_disabled
    /\ \E w \in Turns :
        /\ Live(w)
        /\ \E i, j \in DOMAIN chat_log :
            /\ i < j
            /\ chat_log[i] = [echo("p") EXCEPT !.src = w]
            /\ chat_log[j].src = w /\ chat_log[j].text = "frag"

\* C14: a turn whose stream ended at once, with no fragment, and that changed
\* nothing has posted no UpdateChatLog, no ShowDiff and exactly one
\* ChatTaskDone.
C14_EmptyTurnPostsOnlyTaskDone ==
    \A w \in Turns :
        (Done(w) /\ workers[w].result = "ok" /\ FragsOf(posted[w], w) = <<>>)
        => posted[w] = <<ChatTaskDone(w)>>

\* C15: once the session is set up the input is enabled again only by the loop
\* handling a ChatTaskDone, and, when the loop keeps draining and the turn's
\* thread keeps running, every turn that was started is followed by the input
\* being enabled again, also when its stream raised.
C15_InputReenabledByTaskDone ==
    /\ [][(file_browser /\ input_disabled /\ ~input_disabled')
            => (queue # <<>> /\ Head(queue).type = "ChatTaskDone" /\ on_chat_task_done)]_vars
    /\ \A w \in Workers :
        (workers[w].kind = "turn" /\ Live(w)) ~> (Done(w) /\ ~input_disabled)

\* C15 witness: a turn whose stream raised has ended and the input is enabled
\* again.
C15_Witness ==
    /\ ~input_disabled
    /\ \E w \in Turns : Done(w) /\ workers[w].raised

\* C16: when the turn has posted ChatTaskDone, the process that send started
\* has been waited on, whichever way the stream ended: normally, with a
\* non-zero exit, or with an exception while writing the prompt or reading
\* the output.
C16_ProcessWaitedBeforeTaskDone ==
    (OfType(send_log.posted, "ChatTaskDone") # <<>> /\ send_log.launches > 0)
    => process.state = "waited"

\* C17: two toggles of the same path, overlapping or not, leave the path's
\* membership as it was before them once both have ended.
C17_OverlappingTogglesRestore ==
    \A p \in Paths :
        (/\ Cardinality({w \in Toggles : workers[w].arg = p}) = 2
         /\ \A w \in Toggles : Done(w))
        => ((p \in tracked) <=> (p \in tracked0))

\* C18: when no background operation is live, sys.stdout is the original
\* stream again, whatever the interleaving of the operations that replaced
\* and restored it; and the text an operation printed is posted by that
\* operation and by no other: it is in no other operation's capture and it
\* does not reach the original stream.
C18_StdoutRestoredAndOwnText ==
    /\ (\A w \in Workers : ~Live(w)) => sys_stdout = 0
    /\ \A w \in Workers : \A i \in DOMAIN captured[w] : captured[w][i] = w
    /\ \A w \in Workers : \A t \in Workers : Carrying(w, t) # <<>> => t = w
    /\ terminal = {}

Mounted == {c \in DOMAIN containers : containers[c].mounted}

\* C19: the diffs shown are the changes applied and not yet reverted: when
\* nothing is running and the queue is empty, the mounted diff containers
\* show exactly the changes still applied, so that the undo of any shown
\* diff has reverted that diff's change and removed that diff's container.
C19_ShownDiffsAreAppliedChanges ==
    ((\A w \in Workers : ~Live(w)) /\ queue = <<>>)
    => {containers[c].diff : c \in Mounted} = {commits[i] : i \in DOMAIN commits}

\* C20: send cannot deadlock with the process: whatever the process does and
\* whatever the capacity of the pipes, as long as the turn has not posted
\* ChatTaskDone either send, its consumer or the process can take a step.
C20_NoDeadlock ==
    OfType(send_log.posted, "ChatTaskDone") # <<>> \/ ENABLED NextSend

\* send has read the standard output of the process to its end.
EndOfStream == send_frame.pc = "wait" \/ process.state = "waited"

\* C21 (as claimed): every fragment is one character; at every yield the
\* partial response is the concatenation of the fragments yielded so far; at
\* end-of-stream that concatenation is the whole standard output of the
\* process, character for character.
C21_FragmentsAreWholeOutput ==
    /\ \A i \in DOMAIN send_log.yielded : send_log.yielded[i] \in Chars
    /\ send_frame.pc = "yield" =>
        send_frame.partial_response_content
            = Append(send_log.yielded, send_frame.chunk)
    /\ EndOfStream => send_log.yielded = send_log.output

\* The standard output as text with universal newlines: "\r\n" and "\r" each
\* read as "\n".
RECURSIVE universal_newlines(_)
universal_newlines(text) ==
    IF text = <<>> THEN <<>>
    ELSE IF Head(text) = "CR"
         THEN <<"LF">> \o universal_newlines(
                IF Len(text) > 1 /\ text[2] = "LF" THEN Tail(Tail(text)) ELSE Tail(text))
         ELSE <<Head(text)>> \o universal_newlines(Tail(text))

\* C21 (amended): every fragment is one character; at every yield the partial
\* response is the concatenation of the fragments yielded so far; at
\* end-of-stream that concatenation is the standard output of the process
\* read as text with universal newlines; after end-of-stream no further
\* fragment is yielded.
C21_FragmentsAreDecodedOutput ==
    /\ [](/\ \A i \in DOMAIN send_log.yielded : send_log.yielded[i] \in Chars
          /\ send_frame.pc = "yield" =>
                send_frame.partial_response_content
                    = Append(send_log.yielded, send_frame.chunk)
          /\ send_frame.pc \notin {"idle", "start", "yield"} =>
                send_frame.partial_response_content = send_log.yielded
          /\ EndOfStream => send_log.yielded = universal_newlines(send_log.output))
    /\ [][EndOfStream => send_log.yielded' = send_log.yielded]_vars

\* C21 witness: the process wrote "\r\n", send has read to end-of-stream and
\* has yielded the one fragment "\n".
C21_Witness ==
    /\ EndOfStream
    /\ send_log.output = <<"CR", "LF">>
    /\ send_log.yielded = <<"LF">>

\* The error reports that name a failure; "stderr" is the text of the
\* process's standard error that follows the report of a non-zero exit.
Failures ==
    LET Test(t) == t # "stderr" IN SelectSeq(send_log.tool_errors, Test)

\* C22: there is no implicit retry: a call of send launches the process at
\* most once; a failure (non-zero exit, command not found, any other
\* exception) is reported once, and after it no fragment is yielded and no
\* process is launched; a non-zero exit seen by the wait is reported, a zero
\* exit is not; a send called with functions launches no process and yields
\* no fragment.
C22_NoImplicitRetry ==
    /\ [](/\ send_log.launches <= 1
          /\ Len(Failures) <= 1
          /\ \A i \in DOMAIN send_log.tool_errors :
                send_log.tool_errors[i] = "stderr"
                => (i = 2 /\ send_log.tool_errors[1] = "exit code")
          /\ process.state = "waited" =>
                (Failures = IF process.returncode # 0 THEN <<"exit code">> ELSE <<>>)
          /\ send_frame.functions =>
                (/\ send_log.launches = 0
                 /\ send_log.yielded = <<>>
                 /\ send_frame.pc # "start" => send_log.tool_errors = <<"functions">>))
    /\ [][send_log.tool_errors # <<>> =>
            (/\ send_log.yielded' = send_log.yielded
             /\ send_log.launches' = send_log.launches
             /\ Failures' = Failures)]_vars

\* C22 witness: the process wrote output and text on its standard error and
\* exited non-zero; send has yielded the output, reported the failure, and the
\* turn has ended.
C22_Witness ==
    /\ send_frame.pc = "done"
    /\ send_log.launches = 1
    /\ send_log.yielded # <<>>
    /\ send_log.tool_errors = <<"exit code", "stderr">>

====
